---- MODULE Spec2Model ----
(***************************************************************************)
(* Model of src/app.py: the /detect-amounts pipeline (extraction,          *)
(* normalization, classification by an external oracle with retry and      *)
(* backoff, provenance) as a state machine over one request.               *)
(*                                                                         *)
(* Text is a sequence of one-character strings.  Confidence values are in  *)
(* hundredths (0.90 is 90, 0.0 is 0).  Python's None for a string is the   *)
(* empty sequence where the code only tests it for truth.                  *)
(***************************************************************************)
EXTENDS Integers, Sequences, FiniteSets, TLC

\* ------------------------------------------------------------------ bounds

\* A document text is a concatenation of at most MaxWords fragments.
MaxWords == 3
\* An oracle's JSON array holds at most MaxItems elements.
MaxItems == 2

\* --------------------------------------------------------- program constants

\* llm_call_with_backoff(payload, max_retries=3)
max_retries == 3
\* len(document_text) < 10
MIN_TEXT_LEN == 10
\* .{0,20}? on each side of the token
WINDOW == 20
\* [a-zA-Z]{1,3}
MAX_AFFIX == 3
\* "confidence": 0.90, in hundredths
CONFIDENCE_OK == 90
\* "confidence": 0.0, in hundredths
CONFIDENCE_FAILED == 0
\* delay = 2 ** attempt
BACKOFF_BASE == 2

\* ------------------------------------------------------------- characters

LOWER == <<"a", "b", "c", "d", "e", "f", "g", "h", "i", "j", "k", "l", "m",
           "n", "o", "p", "q", "r", "s", "t", "u", "v", "w", "x", "y", "z">>
UPPER == <<"A", "B", "C", "D", "E", "F", "G", "H", "I", "J", "K", "L", "M",
           "N", "O", "P", "Q", "R", "S", "T", "U", "V", "W", "X", "Y", "Z">>
DIGITS == <<"0", "1", "2", "3", "4", "5", "6", "7", "8", "9">>

Range(s) == {s[i] : i \in DOMAIN s}

LOWER_SET == Range(LOWER)
UPPER_SET == Range(UPPER)
DIGIT_SET == Range(DIGITS)
LETTER_SET == LOWER_SET \cup UPPER_SET
SPACE_SET == {" ", "\n", "\t"}

\* \d
IsDigit(c) == c \in DIGIT_SET
\* [a-zA-Z]
IsLetter(c) == c \in LETTER_SET
\* \s
IsSpace(c) == c \in SPACE_SET

TO_UPPER == [c \in LOWER_SET |-> UPPER[CHOOSE i \in DOMAIN LOWER : LOWER[i] = c]]
TO_LOWER == [c \in UPPER_SET |-> LOWER[CHOOSE i \in DOMAIN UPPER : UPPER[i] = c]]
DIGIT_VALUE == [c \in DIGIT_SET |-> (CHOOSE i \in DOMAIN DIGITS : DIGITS[i] = c) - 1]

\* str.upper() on one character
ToUpper(c) == IF c \in LOWER_SET THEN TO_UPPER[c] ELSE c

\* case folding of re.IGNORECASE on one character
Fold(c) == IF c \in UPPER_SET THEN TO_LOWER[c] ELSE c

Upper(s) == [i \in DOMAIN s |-> ToUpper(s[i])]

\* the value of one decimal digit
DigitValue(c) == DIGIT_VALUE[c]

RECURSIVE LStrip(_)
LStrip(s) == IF s # <<>> /\ IsSpace(Head(s)) THEN LStrip(Tail(s)) ELSE s

RECURSIVE RStrip(_)
RStrip(s) ==
    IF s # <<>> /\ IsSpace(s[Len(s)]) THEN RStrip(SubSeq(s, 1, Len(s) - 1)) ELSE s

\* str.strip()
Strip(s) == RStrip(LStrip(s))

\* does pat occur in s at position p (1-based), under re.IGNORECASE
MatchesAt(s, p, pat) ==
    /\ p >= 1
    /\ p + Len(pat) - 1 <= Len(s)
    /\ \A j \in DOMAIN pat : Fold(s[p + j - 1]) = Fold(pat[j])

\* number of consecutive characters of s from position i on that lie in the
\* class cls, counted up to cap
RECURSIVE Run(_, _, _, _)
Run(s, i, cls, cap) ==
    IF cap = 0 \/ i > Len(s) \/ s[i] \notin cls THEN 0 ELSE 1 + Run(s, i + 1, cls, cap - 1)

\* ----------------------------------------------- step1_ocr_text_extraction

\* input_text.replace('%', '')
StripPercent(t) == SelectSeq(t, LAMBDA c : c # "%")

\* \d+ at position i: the length matched, 0 when it does not match
Alt1Len(s, i) == Run(s, i, DIGIT_SET, Len(s))

\* [a-zA-Z]{1,3}\s*\d+ at position i with exactly n letters taken.  \s* is
\* greedy; giving whitespace back leaves a whitespace character where \d+
\* must start, so only the greedy split can match.
Alt2LenWith(s, i, n) ==
    IF Run(s, i, LETTER_SET, n) < n THEN 0
    ELSE LET w == Run(s, i + n, SPACE_SET, Len(s))
             d == Run(s, i + n + w, DIGIT_SET, Len(s))
         IN  IF d > 0 THEN n + w + d ELSE 0

\* [a-zA-Z]{1,3}\s*\d+ at position i: the quantifier is greedy, so the longest
\* letter prefix is tried first and shorter ones on backtracking
RECURSIVE Alt2From(_, _, _)
Alt2From(s, i, n) ==
    IF n = 0 THEN 0
    ELSE IF Alt2LenWith(s, i, n) > 0 THEN Alt2LenWith(s, i, n)
    ELSE Alt2From(s, i, n - 1)

Alt2Len(s, i) == Alt2From(s, i, MAX_AFFIX)

\* \d+\s*[a-zA-Z]{1,3} at position i
Alt3Len(s, i) ==
    LET d == Run(s, i, DIGIT_SET, Len(s))
        w == Run(s, i + d, SPACE_SET, Len(s))
        l == Run(s, i + d + w, LETTER_SET, MAX_AFFIX)
    IN  IF d > 0 /\ l > 0 THEN d + w + l ELSE 0

\* the alternation (\d+|[a-zA-Z]{1,3}\s*\d+|\d+\s*[a-zA-Z]{1,3}) at position i:
\* the first alternative that matches wins
MatchLen(s, i) ==
    IF Alt1Len(s, i) > 0 THEN Alt1Len(s, i)
    ELSE IF Alt2Len(s, i) > 0 THEN Alt2Len(s, i)
    ELSE Alt3Len(s, i)

\* re.findall: the non-overlapping matches left to right, as <<start, length>>
RECURSIVE FindAllFrom(_, _)
FindAllFrom(s, i) ==
    IF i > Len(s) THEN <<>>
    ELSE LET n == MatchLen(s, i)
         IN  IF n = 0 THEN FindAllFrom(s, i + 1)
             ELSE <<(<<i, n>>)>> \o FindAllFrom(s, i + n)

AmountMatches(t) == FindAllFrom(StripPercent(t), 1)

\* a variant of TokenOf that removes whitespace only
TokenKeepLetters(m) == Strip(SelectSeq(m, LAMBDA c : ~IsSpace(c)))
\* re.sub(r'[a-zA-Z\s]+', '', m).strip() on the match m
TokenOf(m) == Strip(SelectSeq(m, LAMBDA c : ~IsLetter(c) /\ ~IsSpace(c)))

\* the loop over matches: tokens of length > 1 are kept
RawTokens(t) ==
    LET s  == StripPercent(t)
        ms == AmountMatches(t)
        toks == [k \in DOMAIN ms |-> TokenOf(SubSeq(s, ms[k][1], ms[k][1] + ms[k][2] - 1))]
    IN  SelectSeq(toks, LAMBDA tok : tok # <<>> /\ Len(tok) > 1)

\* the alternatives of (INR|Rs|\$|USD|EUR|GBP), in order
CURRENCY_MARKERS ==
    << <<"I", "N", "R">>, <<"R", "s">>, <<"$">>, <<"U", "S", "D">>,
       <<"E", "U", "R">>, <<"G", "B", "P">> >>

\* the marker matched at position p of t, <<>> when none matches there
MarkerAt(t, p) ==
    LET hits == {k \in DOMAIN CURRENCY_MARKERS : MatchesAt(t, p, CURRENCY_MARKERS[k])}
    IN  IF hits = {} THEN <<>>
        ELSE LET k == CHOOSE k \in hits : \A j \in hits : k <= j
             IN  SubSeq(t, p, p + Len(CURRENCY_MARKERS[k]) - 1)

\* currency_matches[0].upper() if currency_matches else None
CurrencyHint(t) ==
    LET ps == {p \in DOMAIN t : MarkerAt(t, p) # <<>>}
    IN  IF ps = {} THEN <<>>
        ELSE Upper(MarkerAt(t, CHOOSE p \in ps : \A q \in ps : p <= q))

\* ------------------------------------------------------ step2_normalization

\* token.replace('l', '1').replace('I', '1').replace('O', '0')
Corrected(token) ==
    [i \in DOMAIN token |->
        IF token[i] \in {"l", "I"} THEN "1"
        ELSE IF token[i] = "O" THEN "0"
        ELSE token[i]]

\* int(s) raises ValueError unless s is a digit string (over the characters a
\* token can hold: no sign, underscore or surrounding whitespace reaches it)
IntParses(s) == s # <<>> /\ \A i \in DOMAIN s : IsDigit(s[i])

RECURSIVE IntOf(_)
IntOf(s) ==
    IF s = <<>> THEN 0 ELSE 10 * IntOf(SubSeq(s, 1, Len(s) - 1)) + DigitValue(s[Len(s)])

\* the loop: tokens that do not convert are skipped
RECURSIVE Normalized(_)
Normalized(tokens) ==
    IF tokens = <<>> THEN <<>>
    ELSE LET c == Corrected(Head(tokens))
         IN  (IF IntParses(c) THEN <<IntOf(c)>> ELSE <<>>) \o Normalized(Tail(tokens))

\* zip(raw_tokens, normalized_amounts): pairs up to the shorter list
Min(a, b) == IF a <= b THEN a ELSE b
AmountMapping(tokens, amounts) ==
    [i \in 1..Min(Len(tokens), Len(amounts)) |->
        [raw_token |-> tokens[i], value |-> amounts[i]]]

\* ------------------------------------------------------- extract_provenance

\* the positions of text at which the escaped token matches (re.IGNORECASE)
Occurrences(text, tok) == {q \in 1..(Len(text) + 1) : MatchesAt(text, q, tok)}

\* .{0,20}? followed by the token, tried from start position p: the lazy
\* quantifier first takes k characters, tries the token, and on failure takes
\* one more character ('.' does not match a newline) up to 20.  The length of
\* the lead taken, -1 when the pattern does not match at p.  occ is
\* Occurrences(text, tok).
RECURSIVE LeadFrom(_, _, _, _)
LeadFrom(text, p, k, occ) ==
    IF p + k \in occ THEN k
    ELSE IF k >= WINDOW \/ p + k > Len(text) \/ text[p + k] = "\n" THEN -1
    ELSE LeadFrom(text, p, k + 1, occ)

\* re.search: the leftmost start position at which the pattern matches, as
\* <<start, lead>>; <<>> when there is no match
RECURSIVE SearchFrom(_, _, _)
SearchFrom(text, p, occ) ==
    IF occ = {} \/ p > Len(text) + 1 THEN <<>>
    ELSE LET k == LeadFrom(text, p, 0, occ)
         IN  IF k >= 0 THEN <<p, k>> ELSE SearchFrom(text, p + 1, occ)

\* match.group(1): the lead, the token, and nothing for the lazy tail .{0,20}?
Excerpt(text, m, tok) == SubSeq(text, m[1], m[1] + m[2] + Len(tok) - 1)

TEXT_PREFIX == <<"t", "e", "x", "t", ":", " ", "'">>
TOKEN_PREFIX == <<"t", "o", "k", "e", "n", ":", " ", "'">>
QUOTE == <<"'">>

extract_provenance(text, raw_token) ==
    LET m == SearchFrom(text, 1, Occurrences(text, raw_token))
    IN  IF m # <<>>
        THEN TEXT_PREFIX \o Strip(Excerpt(text, m, raw_token)) \o QUOTE
        ELSE TOKEN_PREFIX \o raw_token \o QUOTE

\* ------------------------------------------------------------ JSON values

\* A JSON scalar as the pipeline reads it: k is "missing" (the key is absent,
\* dict.get gives None), "null", "num" (n) or "str" (s).
JMissing == [k |-> "missing", n |-> 0, s |-> <<>>]
JNull == [k |-> "null", n |-> 0, s |-> <<>>]
JNum(n) == [k |-> "num", n |-> n, s |-> <<>>]
JStr(s) == [k |-> "str", n |-> 0, s |-> s]

\* item.get(key) is None
IsNone(j) == j.k \in {"missing", "null"}

RECURSIVE Decimal(_)
Decimal(n) ==
    IF n < 10 THEN <<DIGITS[n + 1]>> ELSE Decimal(n \div 10) \o <<DIGITS[(n % 10) + 1]>>

\* str(item.get("raw_token"))
PyStr(j) ==
    IF IsNone(j) THEN <<"N", "o", "n", "e">>
    ELSE IF j.k = "num" THEN Decimal(j.n)
    ELSE j.s

\* One element of the oracle's array: a JSON object with the keys it has, or
\* (obj = FALSE) a value that is not an object.
Item(type, value, raw_token) ==
    [obj |-> TRUE, type |-> type, value |-> value, raw_token |-> raw_token]
NotAnObject == [obj |-> FALSE, type |-> JMissing, value |-> JMissing, raw_token |-> JMissing]

\* an element of the shape the schema requires: an object with a type, a
\* numeric value and a raw_token string
WellFormedItem(it) ==
    it.obj /\ it.type.k = "str" /\ it.value.k = "num" /\ it.raw_token.k = "str"

ITEMS ==
    { Item(JStr(<<"t", "o", "t", "a", "l">>), JNum(1200), JStr(<<"1", "2", "0", "0">>)),
      Item(JStr(<<"p", "a", "i", "d">>), JNum(1000), JStr(<<"1", "O", "O", "0">>)),
      Item(JStr(<<"d", "u", "e">>), JNull, JStr(<<"2", "O", "O">>)),
      Item(JMissing, JNum(200), JStr(<<"2", "O", "O">>)),
      Item(JStr(<<"t", "a", "x">>), JStr(<<"x">>), JMissing),
      NotAnObject }

\* What json.loads gives for the candidate text: k is "list" (items), or a
\* value that is no list: "null", "zero" (0), "num" (non-zero), "emptyobj"
\* ({}), "obj" (a non-empty object), "str" (a non-empty string).
JList(items) == [k |-> "list", items |-> items]
JOther(k) == [k |-> k, items |-> <<>>]

RECURSIVE ListsUpTo(_)
ListsUpTo(n) ==
    IF n = 0 THEN {<<>>}
    ELSE LET shorter == ListsUpTo(n - 1)
         IN  shorter \cup {Append(l, it) : l \in shorter, it \in ITEMS}

PAYLOADS ==
    {JList(l) : l \in ListsUpTo(MaxItems)}
        \cup {JOther(k) : k \in {"null", "zero", "num", "emptyobj", "obj", "str"}}

\* the shape the request's schema asks for
WellFormed(v) == v.k = "list" /\ \A i \in DOMAIN v.items : WellFormedItem(v.items[i])

\* Python truth of a parsed value: None, 0, {} and [] are false
Truthy(v) ==
    IF v.k = "list" THEN v.items # <<>> ELSE v.k \in {"num", "obj", "str"}

\* ------------------------------------------------------------ oracle text

\* The candidate text as a sequence of atoms: "fence" (three backquotes),
\* "json", "\n", " ", and "P", which stands for the characters of the JSON
\* value in payload.
RECURSIVE Replace(_, _)
\* str.replace(pat, ''): non-overlapping occurrences, left to right
Replace(s, pat) ==
    IF Len(s) < Len(pat) THEN s
    ELSE IF SubSeq(s, 1, Len(pat)) = pat THEN Replace(SubSeq(s, Len(pat) + 1, Len(s)), pat)
    ELSE <<Head(s)>> \o Replace(Tail(s), pat)

StartsWith(s, pat) == Len(s) >= Len(pat) /\ SubSeq(s, 1, Len(pat)) = pat

FENCE_JSON == <<"fence", "json">>
FENCE_OPEN == <<"fence", "json", "\n">>
FENCE_CLOSE == <<"\n", "fence">>

\* lines 31-32: the fences are removed only when the text starts with fence json
Unfenced(atoms) ==
    IF StartsWith(atoms, FENCE_JSON)
    THEN Replace(Replace(Strip(atoms), FENCE_OPEN), FENCE_CLOSE)
    ELSE atoms

\* json.loads accepts one JSON value with whitespace around it
JsonLoads(atoms) == Strip(atoms) = <<"P">>

TEXT_FORMS ==
    { <<"P">>,
      <<"fence", "json", "\n", "P", "\n", "fence">>,
      <<"fence", "json", "\n", "P", "\n", "fence", "\n">>,
      <<"fence", "json", "P", "fence">>,
      <<"fence", "\n", "P", "\n", "fence">>,
      <<"\n", "fence", "json", "\n", "P", "\n", "fence">>,
      <<>> }

\* ------------------------------------------------------- oracle behaviour

OracleText(atoms, payload) == [atoms |-> atoms, payload |-> payload]

ORACLE_TEXTS ==
    {OracleText(<<"P">>, v) : v \in PAYLOADS}
        \cup {OracleText(f, JList(<<>>)) : f \in TEXT_FORMS}
        \cup {OracleText(f, JList(<<it>>)) : f \in TEXT_FORMS, it \in ITEMS}

NoText == OracleText(<<>>, JOther("null"))

\* What one requests.post gives.  kind: "network_error" (RequestException),
\* "http_error" (raise_for_status raises), "body_not_json" (response.json()
\* raises) or "json" with the body's shape:
\*   "not_object"        the body is JSON but no object
\*   "no_candidates"     {}                     'candidates' defaults to [{}]
\*   "empty_candidates"  {"candidates": []}
\*   "empty_candidate"   {"candidates": [{}]}
\*   "no_content"        a candidate without 'content'
\*   "empty_parts"       a candidate whose content.parts is []
\*   "part_no_text"      a first part without 'text'
\*   "text"              a first part with 'text' (text)
Outcome(kind, shape, text) == [kind |-> kind, shape |-> shape, text |-> text]

OUTCOMES ==
    {Outcome(k, "none", NoText) : k \in {"network_error", "http_error", "body_not_json"}}
        \cup {Outcome("json", sh, NoText) :
                sh \in {"not_object", "no_candidates", "empty_candidates",
                        "empty_candidate", "no_content", "empty_parts", "part_no_text"}}
        \cup {Outcome("json", "text", t) : t \in ORACLE_TEXTS}

\* ------------------------------------------------------------- documents

SCENARIO_HEAD ==
    <<"T", "o", "t", "a", "l", " ", "A", "m", "o", "u", "n", "t", ":", " ",
      "R", "s", " ", "1", "2", "0", "0">>
SCENARIO_PAID == <<",", " ", "P", "a", "i", "d", ":", " ", "1", "O", "O", "0">>
SCENARIO_DUE == <<",", " ", "D", "u", "e", ":", " ", "2", "O", "O">>
PERCENT_LINE == <<"\n", "2", "0", "%", " ", "o", "f", "f">>

\* "Total Amount: Rs 1200, Paid: 1OO0, Due: 2OO"
SCENARIO_TEXT == SCENARIO_HEAD \o SCENARIO_PAID \o SCENARIO_DUE

WORDS == {SCENARIO_HEAD, SCENARIO_PAID, SCENARIO_DUE, PERCENT_LINE}

RECURSIVE TextsUpTo(_)
TextsUpTo(n) ==
    IF n = 0 THEN {<<>>}
    ELSE LET shorter == TextsUpTo(n - 1)
         IN  shorter \cup {t \o w : t \in shorter, w \in WORDS}

\* the documents submitted: every text of at most MaxWords fragments
TEXTS == TextsUpTo(MaxWords)

\* "Total Amount: 500 | Paid: 450 | Due: 50 USD"
PLACEHOLDER_TEXT ==
    <<"T", "o", "t", "a", "l", " ", "A", "m", "o", "u", "n", "t", ":", " ",
      "5", "0", "0", " ", "|", " ", "P", "a", "i", "d", ":", " ", "4", "5", "0",
      " ", "|", " ", "D", "u", "e", ":", " ", "5", "0", " ", "U", "S", "D">>

DEFAULT_CURRENCY == <<"U", "S", "D">>

\* ------------------------------------------------------------------ state

VARIABLES
    API_KEY,             \* the configured credential, "" when there is none
    pc,                  \* where detect_amounts_endpoint stands
    document_text,       \* the text the pipeline works on
    raw_tokens,          \* step1_result["raw_tokens"]
    currency_hint,       \* step1_result["currency_hint"], <<>> for None
    normalized_amounts,  \* step2_result["normalized_amounts"]
    amount_mapping,      \* the mapping step3 sends to the oracle
    attempt,             \* the loop variable of llm_call_with_backoff
    sent,                \* requests.post calls made
    delays,              \* the time.sleep calls made, in order
    last,                \* how the last attempt ended
    classified_data,     \* what llm_call_with_backoff returned
    step3_result,        \* what step3_classification_by_context returned
    response,            \* what the endpoint returned, or the exception raised
    stages               \* the stages run, in order

vars ==
    <<API_KEY, pc, document_text, raw_tokens, currency_hint, normalized_amounts,
      amount_mapping, attempt, sent, delays, last, classified_data,
      step3_result, response, stages>>

\* llm_call_with_backoff returned None
PY_NONE == JOther("none")

NO_RESPONSE == [http |-> 0]
NO_STEP3 == [pending |-> TRUE]
NO_ATTEMPT == [kind |-> "none", shape |-> "none", how |-> "none"]

Init ==
    /\ API_KEY \in {"", "key"}
    /\ pc = "idle"
    /\ document_text = <<>>
    /\ raw_tokens = <<>>
    /\ currency_hint = <<>>
    /\ normalized_amounts = <<>>
    /\ amount_mapping = <<>>
    /\ attempt = 0
    /\ sent = 0
    /\ delays = <<>>
    /\ last = NO_ATTEMPT
    /\ classified_data = PY_NONE
    /\ step3_result = NO_STEP3
    /\ response = NO_RESPONSE
    /\ stages = <<>>

\* jsonify({"status": ..., "reason": ...}), code
Refusal(status, reason, http) == [status |-> status, reason |-> reason, http |-> http]

\* an exception leaves the view function: Flask answers 500 with no JSON body
Raised(exc) == [exception |-> exc, http |-> 500]

Return(r) == pc' = "done" /\ response' = r
Raise(exc) == pc' = "raised" /\ response' = Raised(exc)

\* --------------------------------------------- detect_amounts_endpoint, entry

\* a variant of TooShort that lets every text through
TooShortNever(text) == FALSE
\* line 178: len(document_text) < 10
TooShort(text) == Len(text) < MIN_TEXT_LEN

\* lines 167-179: the request's document_text and whether it carries an image
Receive(text, image) ==
    /\ pc = "idle"
    /\ LET doc == IF image /\ text = <<>> THEN PLACEHOLDER_TEXT ELSE text
       IN  /\ document_text' = doc
           /\ IF text = <<>> /\ ~image
              THEN Return(Refusal("error",
                       "Missing 'document_text' or 'image_base64' input.", 400))
              ELSE IF TooShort(doc)
              THEN Return(Refusal("no_amounts_found",
                       "Document text is too short or missing.", 200))
              ELSE pc' = "step1" /\ UNCHANGED response
    /\ UNCHANGED <<API_KEY, raw_tokens, currency_hint, normalized_amounts,
                   amount_mapping, attempt, sent, delays, last, classified_data,
                   step3_result, stages>>

\* lines 181-187
Step1 ==
    /\ pc = "step1"
    /\ stages' = Append(stages, "extraction")
    /\ raw_tokens' = RawTokens(document_text)
    /\ IF raw_tokens' = <<>>
       THEN /\ Return(Refusal("no_amounts_found",
                        "document too noisy or no numeric tokens found", 200))
            /\ UNCHANGED currency_hint
       ELSE /\ currency_hint' = CurrencyHint(document_text)
            /\ pc' = "step2"
            /\ UNCHANGED response
    /\ UNCHANGED <<API_KEY, document_text, normalized_amounts, amount_mapping,
                   attempt, sent, delays, last, classified_data, step3_result>>

\* lines 189-194
Step2 ==
    /\ pc = "step2"
    /\ stages' = Append(stages, "normalization")
    /\ normalized_amounts' = Normalized(raw_tokens)
    /\ IF normalized_amounts' = <<>>
       THEN Return(Refusal("no_amounts_found",
                "Tokens found, but none could be reliably normalized to numbers.", 200))
       ELSE pc' = "step3" /\ UNCHANGED response
    /\ UNCHANGED <<API_KEY, document_text, raw_tokens, currency_hint,
                   amount_mapping, attempt, sent, delays, last, classified_data,
                   step3_result>>

\* a variant of CredentialMissing that skips the check
CredentialMissingNever == FALSE
\* line 112: if not API_KEY
CredentialMissing == API_KEY = ""

\* lines 197-200 with lines 110-152: step3 up to the call of the oracle
Step3 ==
    /\ pc = "step3"
    /\ stages' = Append(stages, "classification")
    /\ IF CredentialMissing
       THEN /\ step3_result' =
                  [amounts |-> JList(<<>>), confidence |-> CONFIDENCE_FAILED,
                   error |-> "API Key Missing"]
            /\ Return(Refusal("error",
                 "Configuration error: GEMINI_API_KEY environment variable is not set.",
                 500))
            /\ UNCHANGED amount_mapping
       ELSE /\ amount_mapping' = AmountMapping(raw_tokens, normalized_amounts)
            /\ pc' = "llm"
            /\ UNCHANGED <<step3_result, response>>
    /\ UNCHANGED <<API_KEY, document_text, raw_tokens, currency_hint,
                   normalized_amounts, attempt, sent, delays, last, classified_data>>

\* ------------------------------------------------- llm_call_with_backoff

\* How one pass of the loop body (lines 21-56) ends for what the oracle did:
\*   "RequestException", "HTTPError"   caught at lines 46 and 38
\*   "structure"                       line 36, return None
\*   "JSONDecodeError"                 json.loads raised, line 56, return None
\*   "parsed"                          line 33, return json.loads(json_text)
\*   "IndexError", "AttributeError"    no clause catches them
\* response.json() on a body that is not JSON raises requests' JSONDecodeError,
\* a RequestException, so the clause at line 46 takes it before line 54.
Handling(o) ==
    CASE o.kind = "network_error" -> "RequestException"
      [] o.kind = "http_error" -> "HTTPError"
      [] o.kind = "body_not_json" -> "RequestException"
      [] o.shape = "not_object" -> "AttributeError"
      [] o.shape \in {"empty_candidates", "empty_parts"} -> "IndexError"
      [] o.shape \in {"no_candidates", "empty_candidate", "no_content", "part_no_text"}
            -> "structure"
      [] OTHER ->
            IF JsonLoads(Unfenced(o.text.atoms)) THEN "parsed" ELSE "JSONDecodeError"

Retryable(how) == how \in {"RequestException", "HTTPError"}

\* a variant of ShouldSleep with the bound off by one
ShouldSleepOffByOne(a) == a < max_retries
\* lines 41 and 49: if attempt < max_retries - 1
ShouldSleep(a) == a < max_retries - 1

\* lines 42 and 50: delay = 2 ** attempt
Backoff(a) == BACKOFF_BASE ^ a

\* a variant of Confidence that ignores whether the call gave anything
ConfidenceAlwaysOk(v) == CONFIDENCE_OK
\* lines 156-159
Confidence(v) == IF Truthy(v) THEN CONFIDENCE_OK ELSE CONFIDENCE_FAILED

Step3Result(v) ==
    [amounts |-> IF Truthy(v) THEN v ELSE JList(<<>>), confidence |-> Confidence(v)]

\* llm_call_with_backoff returns v; step3 returns; lines 202-205 of the endpoint
Finish(v) ==
    /\ classified_data' = v
    /\ step3_result' = Step3Result(v)
    /\ IF ~Truthy(step3_result'.amounts)
       THEN Return(Refusal("no_amounts_found",
                "LLM classification failed due to structure or confidence issues.", 200))
       ELSE pc' = "step4" /\ UNCHANGED response

\* one pass of the loop: a request is sent and the oracle answers with o
LlmAttempt(o) ==
    /\ pc = "llm"
    /\ attempt < max_retries
    /\ sent' = sent + 1
    /\ LET how == Handling(o)
       IN  /\ last' = [kind |-> o.kind, shape |-> o.shape, how |-> how]
           /\ IF Retryable(how)
              THEN /\ delays' = IF ShouldSleep(attempt)
                                THEN Append(delays, Backoff(attempt)) ELSE delays
                   /\ IF ShouldSleep(attempt) /\ attempt + 1 < max_retries
                      THEN /\ attempt' = attempt + 1
                           /\ pc' = "llm"
                           /\ UNCHANGED <<classified_data, step3_result, response>>
                      ELSE /\ UNCHANGED attempt
                           /\ Finish(PY_NONE)
              ELSE /\ UNCHANGED <<attempt, delays>>
                   /\ IF how \in {"IndexError", "AttributeError"}
                      THEN Raise(how) /\ UNCHANGED <<classified_data, step3_result>>
                      ELSE IF how = "parsed"
                      THEN Finish(o.text.payload)
                      ELSE Finish(PY_NONE)
    /\ UNCHANGED <<API_KEY, document_text, raw_tokens, currency_hint,
                   normalized_amounts, amount_mapping, stages>>

\* ------------------------------------------ step 4, lines 207-228

\* the loop over classified_amounts when it is a list: the records built, or
\* the exception that ends it
RECURSIVE CompileFrom(_, _, _)
CompileFrom(items, acc, text) ==
    IF items = <<>> THEN [exc |-> "none", amounts |-> acc]
    ELSE LET item == Head(items)
         IN  IF ~item.obj THEN [exc |-> "AttributeError", amounts |-> acc]
             ELSE IF IsNone(item.value) THEN CompileFrom(Tail(items), acc, text)
             ELSE IF item.type.k = "missing" THEN [exc |-> "KeyError", amounts |-> acc]
             ELSE CompileFrom(Tail(items),
                      Append(acc, [type |-> item.type, value |-> item.value,
                                   source |-> extract_provenance(text, PyStr(item.raw_token))]),
                      text)

\* iterating a value that is no list: a dict or a string yields strings, which
\* have no get; a number is not iterable
Compile(v, text) ==
    IF v.k = "list" THEN CompileFrom(v.items, <<>>, text)
    ELSE IF v.k = "num" THEN [exc |-> "TypeError", amounts |-> <<>>]
    ELSE [exc |-> "AttributeError", amounts |-> <<>>]

Step4 ==
    /\ pc = "step4"
    /\ stages' = Append(stages, "provenance")
    /\ LET out == Compile(step3_result.amounts, document_text)
       IN  IF out.exc # "none" THEN Raise(out.exc)
           ELSE Return([currency |-> IF currency_hint # <<>> THEN currency_hint
                                     ELSE DEFAULT_CURRENCY,
                        amounts |-> out.amounts,
                        status |-> "ok",
                        model_confidence |-> step3_result.confidence,
                        http |-> 200])
    /\ UNCHANGED <<API_KEY, document_text, raw_tokens, currency_hint,
                   normalized_amounts, amount_mapping, attempt, sent, delays, last,
                   classified_data, step3_result>>

\* ---------------------------------------------------------- specification

Next ==
    \/ \E text \in TEXTS, image \in BOOLEAN : Receive(text, image)
    \/ Step1
    \/ Step2
    \/ Step3
    \/ \E o \in OUTCOMES : LlmAttempt(o)
    \/ Step4

Spec == Init /\ [][Next]_vars

\* ------------------------------------------------------------------ claims

STAGE_ORDER == <<"extraction", "normalization", "classification", "provenance">>

CONFIG_REASON == "Configuration error: GEMINI_API_KEY environment variable is not set."
LLM_FAILED_REASON == "LLM classification failed due to structure or confidence issues."

HasField(r, f) == f \in DOMAIN r

\* the sleeps the backoff policy prescribes after n failed attempts: 1 after
\* the first, 2 after the second, none after the last
ExpectedDelays(n) == [i \in 1..Min(n, max_retries - 1) |-> BACKOFF_BASE ^ (i - 1)]

\* the call has returned None to step3, which returned to the endpoint
CallFailed == classified_data = PY_NONE /\ pc = "done"

\* a failure the policy of the specification counts as transient: a network
\* error, a non-2xx response, or a malformed response body
TransientFailure(l) ==
    l.how \in {"RequestException", "HTTPError", "structure", "JSONDecodeError"}

\* C1, as stated: every transient failure of an attempt (network error,
\* non-2xx response, malformed response body) triggers a further attempt until
\* 3 attempts have been made, with delays 1 and 2 and none after the third;
\* the call is declared failed only after the third failed attempt; no run
\* sends more than 3 requests.
C1_AsStated ==
    /\ sent <= max_retries
    /\ (sent > 0 /\ TransientFailure(last)) =>
          IF sent < max_retries
          THEN pc = "llm" /\ delays = ExpectedDelays(sent)
          ELSE CallFailed /\ delays = ExpectedDelays(max_retries)

\* C1, amended: a network error, a non-2xx response or an HTTP body that is not
\* JSON triggers a further attempt until 3 attempts have been made, with a
\* delay of 1 after the first such failure, 2 after the second and none after
\* the third, after which the call returns None; a JSON object whose first
\* candidate is absent or empty or whose first part has no text (line 36), or
\* a candidate text that is not JSON once the fences are stripped (line 56),
\* makes the call return None at once, at whichever attempt it happens, with
\* no delay and no further attempt; no run sends more than 3 requests.
C1_RetryPolicy ==
    /\ sent <= max_retries
    /\ (sent > 0 /\ Retryable(last.how)) =>
          IF sent < max_retries
          THEN pc = "llm" /\ attempt = sent /\ delays = ExpectedDelays(sent)
          ELSE CallFailed /\ delays = ExpectedDelays(max_retries)
    /\ (sent > 0 /\ last.how \in {"structure", "JSONDecodeError"}) =>
          CallFailed /\ delays = ExpectedDelays(sent - 1)

\* C1 witness: three attempts failed in the retried way and the call failed
C1_Witness ==
    /\ sent = max_retries
    /\ Retryable(last.how)
    /\ CallFailed
    /\ delays = <<1, 2>>

\* the oracle call failed on each of 3 attempts and the endpoint returned
AllAttemptsFailed == sent = max_retries /\ TransientFailure(last) /\ pc = "done"

\* C2, as stated: when the oracle call fails on all 3 attempts, the result of
\* the endpoint has status no_amounts_found, model_confidence 0.0 and an empty
\* amounts list.
C2_AsStated ==
    AllAttemptsFailed =>
        /\ HasField(response, "status") /\ response.status = "no_amounts_found"
        /\ HasField(response, "model_confidence")
        /\ response.model_confidence = CONFIDENCE_FAILED
        /\ HasField(response, "amounts") /\ response.amounts = <<>>

\* C2, amended: when the oracle call fails on all 3 attempts, the classifier's
\* result (step3_classification_by_context) has an empty amounts list and
\* confidence 0.0, and the result of the endpoint has status no_amounts_found
\* with a reason, and carries no model_confidence and no amounts field.
C2_FailedCall ==
    AllAttemptsFailed =>
        /\ step3_result = [amounts |-> JList(<<>>), confidence |-> CONFIDENCE_FAILED]
        /\ response = Refusal("no_amounts_found", LLM_FAILED_REASON, 200)
        /\ ~HasField(response, "model_confidence")
        /\ ~HasField(response, "amounts")

\* C2 witness: a run whose three attempts all failed
C2_Witness == AllAttemptsFailed /\ last.kind = "network_error" /\ delays = <<1, 2>>

\* C3, as stated: with no credential configured every run ends with status
\* error and a reason naming the configuration failure, whatever document text
\* was submitted.
C3_AsStated ==
    (API_KEY = "" /\ document_text # <<>> /\ pc \in {"done", "raised"}) =>
        /\ HasField(response, "status") /\ response.status = "error"
        /\ response.reason = CONFIG_REASON

\* C3, amended: with no credential configured, no request is sent, and every
\* run that reaches classification (a text of length at least 10 with at least
\* one raw token and one normalized amount) ends with status error and the
\* configuration reason; a run with no input ends with status error for the
\* missing input, and a run whose text is too short or yields no raw token
\* ends with status no_amounts_found.
C3_MissingCredential ==
    API_KEY = "" =>
        /\ sent = 0
        /\ pc \in {"idle", "step1", "step2", "step3", "done"}
        /\ pc = "done" =>
              IF Len(stages) >= 3 THEN response = Refusal("error", CONFIG_REASON, 500)
              ELSE IF document_text = <<>> THEN response.status = "error" /\ response.http = 400
              ELSE /\ response.status = "no_amounts_found"
                   /\ (TooShort(document_text) \/ raw_tokens = <<>>)

\* C3 witness: a run without credential that reached classification
C3_Witness ==
    /\ API_KEY = ""
    /\ pc = "done"
    /\ stages = <<"extraction", "normalization", "classification">>
    /\ response.http = 500

\* C4: every run ends by returning a structured result with a status field
\* (ok, no_amounts_found or error); no run ends with an exception leaving the
\* pipeline.
C4_AsStated ==
    /\ pc # "raised"
    /\ pc = "done" =>
          /\ HasField(response, "status")
          /\ response.status \in {"ok", "no_amounts_found", "error"}

\* C5: when the oracle's text, after the fences are stripped, parses to a value
\* that is not a sequence of objects each with a type, a numeric value and a
\* raw_token string, the classifier returns an empty amounts list with
\* confidence 0.0 and no element of the response reaches the final amounts.
C5_AsStated ==
    (last.how = "parsed" /\ ~WellFormed(classified_data)) =>
        /\ step3_result = [amounts |-> JList(<<>>), confidence |-> CONFIDENCE_FAILED]
        /\ pc # "step4"
        /\ (pc = "done" /\ HasField(response, "amounts")) => response.amounts = <<>>

CONFUSABLE == {"O", "l", "I"}

\* a digit directly followed by an OCR-confusable letter occurs in t
HasConfusableRun(t) ==
    \E i \in 1..(Len(t) - 1) : IsDigit(t[i]) /\ t[i + 1] \in CONFUSABLE

\* C6: for "Total Amount: Rs 1200, Paid: 1OO0, Due: 2OO" extraction yields
\* the raw tokens 1200, 1OO0, 2OO and the hint RS, and normalization yields
\* 1200, 1000, 200; in general a digit run with embedded confusable letters
\* reaches the Normalizer as one raw token that still carries the letters.
C6_AsStated ==
    /\ (document_text = SCENARIO_TEXT /\ Len(stages) >= 2) =>
          /\ raw_tokens = << <<"1", "2", "0", "0">>, <<"1", "O", "O", "0">>,
                             <<"2", "O", "O">> >>
          /\ currency_hint = <<"R", "S">>
          /\ normalized_amounts = <<1200, 1000, 200>>
    /\ (Len(stages) >= 2 /\ HasConfusableRun(document_text)) =>
          \E i \in DOMAIN raw_tokens : Range(raw_tokens[i]) \cap CONFUSABLE # {}

\* the position in t of the k-th character of StripPercent(t)
OrigPos(t, k) ==
    CHOOSE p \in DOMAIN t :
        t[p] # "%" /\ Cardinality({q \in 1..p : t[q] # "%"}) = k

\* position p of t lies in a digit run that is immediately followed by '%'
InPercentage(t, p) ==
    /\ IsDigit(t[p])
    /\ LET e == p + Run(t, p, DIGIT_SET, Len(t))
       IN  e <= Len(t) /\ t[e] = "%"

\* the matches whose token step1 keeps
KeptMatches(t) ==
    LET s == StripPercent(t)
        ms == AmountMatches(t)
    IN  {k \in DOMAIN ms :
            Len(TokenOf(SubSeq(s, ms[k][1], ms[k][1] + ms[k][2] - 1))) > 1}

\* C7: a number written as a percentage is not captured as a raw token: no
\* token that step1 keeps takes a digit from a digit run followed by '%'.
C7_AsStated ==
    Len(stages) >= 1 =>
        LET s == StripPercent(document_text)
            ms == AmountMatches(document_text)
        IN  \A k \in KeptMatches(document_text) :
                \A i \in ms[k][1]..(ms[k][1] + ms[k][2] - 1) :
                    IsDigit(s[i]) => ~InPercentage(document_text, OrigPos(document_text, i))

\* the source the claim prescribes for token tok in text: an excerpt holding
\* the token with at most 20 characters on each side when the token occurs in
\* the text, the token-only fallback otherwise
SourceAsClaimed(text, tok, src) ==
    IF Occurrences(text, tok) # {}
    THEN /\ StartsWith(src, TEXT_PREFIX)
         /\ LET e == SubSeq(src, Len(TEXT_PREFIX) + 1, Len(src) - 1)
            IN  Occurrences(e, tok) # {} /\ Len(e) <= Len(tok) + 2 * WINDOW
    ELSE src = TOKEN_PREFIX \o tok \o QUOTE

\* C8: in every run that ends with status ok, each classified amount the
\* oracle returned yields exactly one record of the final amounts, in oracle
\* order, whose source is as claimed.
C8_AsStated ==
    (pc = "done" /\ HasField(response, "amounts")) =>
        /\ classified_data.k = "list"
        /\ Len(response.amounts) = Len(classified_data.items)
        /\ \A i \in DOMAIN response.amounts :
              /\ response.amounts[i].type = classified_data.items[i].type
              /\ response.amounts[i].value = classified_data.items[i].value
              /\ SourceAsClaimed(document_text,
                                 PyStr(classified_data.items[i].raw_token),
                                 response.amounts[i].source)

\* C9: the stages run in the order extraction, normalization, classification,
\* provenance; a request is sent to the oracle only if the text has length at
\* least 10, extraction gave a raw token, normalization gave an amount and a
\* credential is configured; a run that ends at an earlier stage runs no later
\* one (a too-short text attempts no extraction, a missing credential no
\* request).
C9_ForwardOnly ==
    /\ Len(stages) <= Len(STAGE_ORDER)
    /\ stages = SubSeq(STAGE_ORDER, 1, Len(stages))
    /\ sent > 0 =>
          /\ Len(document_text) >= MIN_TEXT_LEN
          /\ raw_tokens # <<>>
          /\ normalized_amounts # <<>>
          /\ API_KEY # ""
          /\ Len(stages) >= 3
    /\ Len(document_text) < MIN_TEXT_LEN => stages = <<>> /\ pc \in {"idle", "done"}
    /\ Len(stages) >= 2 => raw_tokens # <<>>
    /\ (Len(stages) >= 3 \/ pc = "step3") => normalized_amounts # <<>>
    /\ API_KEY = "" => sent = 0 /\ Len(stages) <= 3
    /\ Len(stages) = 4 => sent > 0 /\ Truthy(classified_data)

\* C9 witness: a run that went through all four stages after a retry
C9_Witness ==
    /\ pc = "done"
    /\ stages = STAGE_ORDER
    /\ sent = 2
    /\ HasField(response, "status") /\ response.status = "ok"

AllDigits(tok) == \A i \in DOMAIN tok : IsDigit(tok[i])

====
